---- MODULE Spec2Model ----
(***************************************************************************)
(* Grow-light relay timer (src/src/main.cpp).                              *)
(*                                                                         *)
(* A hardware timer interrupt calls Trigger_relay() once per timer period. *)
(* Trigger_relay counts periods in an 8-bit counter, flips the phase when  *)
(* the counter equals the configured length of the current phase and then  *)
(* bit-bangs one 8-bit frame on the Data (pin 7) and Clock (pin 8) lines.  *)
(* setup() arms the timer, forces every relay OFF and asserts the initial  *)
(* state; loop() is empty.                                                 *)
(***************************************************************************)
EXTENDS Integers, Naturals, Sequences, FiniteSets, TLC

(* ----------------------------------------------------------------------- *)
(* Program constants                                                       *)
(* ----------------------------------------------------------------------- *)
LIGHT_HOURS == 18
DARK_HOURS == 6
NumModules == 1
ChannelsPerModule == 4
UINT8_MOD == 256
FrameBits == 8

(* ----------------------------------------------------------------------- *)
(* Bounds of the model                                                     *)
(* ----------------------------------------------------------------------- *)
\* Small phase lengths 1..MaxSmallHours are explored next to the shipped
\* values and the first value the 8-bit counter cannot hold.
MaxSmallHours == 2
\* The trigger counter (history) saturates here.
MaxTrig == 25
\* The count of triggers since the phase was entered (history) saturates
\* here.
TicksCap == 258

\* Values the LIGHT_HOURS macro is explored with.
LightChoices == (1..MaxSmallHours) \cup {LIGHT_HOURS, UINT8_MOD}
\* Values the DARK_HOURS macro is explored with.
DarkChoices == (1..MaxSmallHours) \cup {DARK_HOURS}

(* ----------------------------------------------------------------------- *)
(* Byte arithmetic                                                         *)
(* ----------------------------------------------------------------------- *)
Pow2(k) == IF k = 0 THEN 1 ELSE IF k = 1 THEN 2 ELSE IF k = 2 THEN 4
           ELSE IF k = 3 THEN 8 ELSE IF k = 4 THEN 16 ELSE IF k = 5 THEN 32
           ELSE IF k = 6 THEN 64 ELSE 128

Bit(b, k) == (b \div Pow2(k)) % 2

RECURSIVE BitAndFrom(_, _, _)
BitAndFrom(a, b, k) ==
    IF k = FrameBits THEN 0
    ELSE Bit(a, k) * Bit(b, k) * Pow2(k) + BitAndFrom(a, b, k + 1)

\* a & b on bytes
BitAnd(a, b) == BitAndFrom(a, b, 0)

RECURSIVE BitOrFrom(_, _, _)
BitOrFrom(a, b, k) ==
    IF k = FrameBits THEN 0
    ELSE (IF Bit(a, k) + Bit(b, k) > 0 THEN Pow2(k) ELSE 0)
         + BitOrFrom(a, b, k + 1)

\* a | b on bytes
BitOr(a, b) == BitOrFrom(a, b, 0)

\* (byte) ~a
BitNot(a) == (UINT8_MOD - 1) - (a % UINT8_MOD)

(* ----------------------------------------------------------------------- *)
(* State                                                                   *)
(* ----------------------------------------------------------------------- *)
VARIABLES
    light_hours,     \* the value LIGHT_HOURS is compiled with
    dark_hours,      \* the value DARK_HOURS is compiled with
    start_on,        \* TRUE iff START_RELAY_ON is defined
    layout,          \* the automatic object whose storage _data[0] lands on
    toggle_relay,    \* global volatile bool toggle_relay
    hours,           \* static uint8_t hours of Trigger_relay
    toggle_relay_1,  \* static bool toggle_relay_1 of Trigger_relay
    mem,             \* automatic objects of the running Trigger_relay
    isr_pc,          \* position of the interrupt context
    pin7,            \* level of the Data line
    pin8,            \* level of the Clock line
    fg_pc,           \* position of the foreground context (setup, loop)
    mod_i,           \* i of the relay initialisation loops of setup
    ch_j,            \* j of the relay initialisation loops of setup
    armed,           \* the timer calls Trigger_relay periodically
    relay,           \* last state commanded to every relay channel
    frame,           \* Data levels at the Clock rising edges of the
                     \* current (or last) transmission, in order
    waits,           \* delays of the current (or last) transmission
    offCmds,         \* channels setup has commanded OFF so far
    ntrig,           \* invocations of Trigger_relay so far (saturating)
    ticks,           \* invocations since the phase was entered (saturating)
    cmdByte,         \* the byte the last invocation built in _data[0]
    lastCmd,         \* phase commanded last (initially the initial phase)
    window,          \* position in the current window of light_hours +
                     \* dark_hours triggers, flips in it, and whether some
                     \* window ended in another state than it began in
    cmdRepeated      \* some frame commanded the phase commanded before it

vars == << light_hours, dark_hours, start_on, layout, toggle_relay, hours,
           toggle_relay_1, mem, isr_pc, pin7, pin8, fg_pc, mod_i, ch_j,
           armed, relay, frame, waits, offCmds, ntrig, ticks, cmdByte,
           lastCmd, window, cmdRepeated >>

config == << light_hours, dark_hours, start_on, layout >>

\* The automatic objects of Trigger_relay.
Objects == {"_data", "mask", "mask_reset", "i"}

\* byte _data[0] has no element: _data[0] is storage the array does not own.
\* It is either storage no other object uses ("_data") or the storage of
\* one of the other automatic objects of the function.
Layouts == Objects

\* The storage an object name designates.
Addr(x) == IF x = "_data" THEN layout ELSE x

Load(m, x) == m[Addr(x)]

Store(m, x, v) == [m EXCEPT ![Addr(x)] = v]

\* Automatic objects outside an invocation.
DeadObjects == [o \in Objects |-> 0]

Channels == 1..ChannelsPerModule
Modules == 1..NumModules

\* LIGHT is TRUE, DARK is FALSE.
InitialPhase(on) == on

PhaseLength(phase) == IF phase THEN light_hours ELSE dark_hours

Sat(n, cap) == IF n < cap THEN n + 1 ELSE cap

(* ----------------------------------------------------------------------- *)
(* Trigger_relay                                                           *)
(* ----------------------------------------------------------------------- *)
\* hours++ on a uint8_t
IncHours(h) == (h + 1) % UINT8_MOD

\* (variant: the length of either phase ends the current phase)
FlipDue_either(t, h) == h = light_hours \/ h = dark_hours

\* the condition of the if statement
FlipDue(t, h) == (t /\ h = light_hours) \/ (~t /\ h = dark_hours)

\* _data[0] = 0 and the if/else that sets or clears bit 0
EncodeCommand(m, t) ==
    LET m0 == Store(m, "_data", 0)
    IN  IF t
        THEN LET m1 == Store(m0, "mask", Pow2(0))
             IN  Store(m1, "_data", BitOr(Load(m1, "_data"), Load(m1, "mask")))
        ELSE LET m1 == Store(m0, "mask", BitNot(Pow2(0)))
             IN  Store(m1, "_data", BitAnd(Load(m1, "_data"), Load(m1, "mask")))

\* byte mask_reset = 0x80 and int i = 1
LoopInit(m) == Store(Store(m, "mask_reset", 128), "i", 1)

\* _data[0] & mask_reset selects the level of the Data line
DataLevel(m) ==
    IF BitAnd(Load(m, "_data"), Load(m, "mask_reset")) # 0
    THEN "HIGH" ELSE "LOW"

\* (variant: the latch delay is taken one bit early)
ClockHighDelay_early(n) == IF n = 7 THEN "LATCH" ELSE "CLOCK_HIGH"

\* the delay taken while the Clock line is HIGH
ClockHighDelay(n) == IF n = 8 THEN "LATCH" ELSE "CLOCK_HIGH"

\* mask_reset >>= 1 and i++
LoopStep(m) ==
    LET m1 == Store(m, "mask_reset", Load(m, "mask_reset") \div 2)
    IN  Store(m1, "i", Load(m1, "i") + 1)

\* (variant: the loop runs one more time)
LoopContinues_more(m) == Load(m, "i") <= 9

\* the loop condition i <= 8
LoopContinues(m) == Load(m, "i") <= 8

\* (variant: the Clock line is left HIGH after the delay)
ClockFallLevel_stuck(level) == level

\* the level written to the Clock line after the delay while it is HIGH
ClockFallLevel(level) == "LOW"

\* (variant: the Data line is left as the last bit set it)
ResetDataLevel_keep(level) == level

\* the level written to the Data line after the loop
ResetDataLevel(level) == "LOW"

LevelBit(level) == IF level = "HIGH" THEN 1 ELSE 0

\* The byte whose bits, most significant first, are the sequence f.
RECURSIVE FrameByte(_)
FrameByte(f) ==
    IF f = << >> THEN 0
    ELSE 2 * FrameByte(SubSeq(f, 1, Len(f) - 1)) + f[Len(f)]

\* The relay board commits the shifted byte on the last Clock pulse: bit
\* (channel - 1) of the byte is the state of the channel.
Latch(r, f) ==
    [r EXCEPT ![1] = [c \in Channels |->
        IF Bit(FrameByte(f), c - 1) = 1 THEN "ON" ELSE "OFF"]]

\* The phase a relay state stands for.
CommandedPhase(r) == r[1][1] = "ON"

\* The windows of light_hours + dark_hours triggers, counted from the first
\* trigger: w is the record before a trigger, flipped tells whether the
\* trigger flips, p and h are the phase and the counter it leaves.  Once a
\* window has ended in another state than the first began in, or with
\* another number of flips than two, the record is frozen.
CountWindow(w, flipped, p, h) ==
    LET f == w.flips + (IF flipped THEN 1 ELSE 0)
    IN  IF w.drifted THEN w
        ELSE IF w.pos + 1 < light_hours + dark_hours
        THEN [pos |-> w.pos + 1, flips |-> f, drifted |-> FALSE]
        ELSE [pos |-> 0, flips |-> 0,
              drifted |-> ~(p = InitialPhase(start_on) /\ h = 0 /\ f = 2)]

\* (variant: the foreground runs while the callback is running)
ForegroundRuns_preempts == TRUE

\* The foreground context runs only while no callback is running.
ForegroundRuns == isr_pc = "idle"

\* The timer interrupt is taken only while no callback is running.
InterruptTaken == armed /\ isr_pc = "idle"

\* Entry of the callback: count, decide, flip, encode.
Trigger_relay ==
    /\ InterruptTaken
    /\ ntrig' = Sat(ntrig, MaxTrig)
    /\ LET h == IncHours(hours)
       IN  IF FlipDue(toggle_relay_1, h)
           THEN /\ hours' = 0
                /\ toggle_relay_1' = ~toggle_relay_1
                /\ mem' = LoopInit(EncodeCommand(mem, ~toggle_relay_1))
                /\ cmdByte' = Load(EncodeCommand(mem, ~toggle_relay_1), "_data")
                /\ isr_pc' = "data"
                /\ frame' = << >>
                /\ waits' = << >>
                /\ ticks' = 0
                /\ window' = CountWindow(window, TRUE, ~toggle_relay_1, 0)
           ELSE /\ hours' = h
                /\ ticks' = Sat(ticks, TicksCap)
                /\ window' = CountWindow(window, FALSE, toggle_relay_1, h)
                /\ UNCHANGED << toggle_relay_1, mem, isr_pc, frame, waits,
                                cmdByte >>
    /\ UNCHANGED << config, toggle_relay, pin7, pin8, fg_pc, mod_i, ch_j,
                    armed, relay, offCmds, lastCmd, cmdRepeated >>

\* Set the Data line and wait the data delay.
SendData ==
    /\ isr_pc = "data"
    /\ pin7' = DataLevel(mem)
    /\ waits' = Append(waits, "DATA")
    /\ isr_pc' = "clock_high"
    /\ UNCHANGED << config, toggle_relay, hours, toggle_relay_1, mem, pin8,
                    fg_pc, mod_i, ch_j, armed, relay, frame, offCmds, ntrig,
                    ticks, lastCmd, cmdRepeated, cmdByte,
                    window >>

\* Rising edge of the Clock line and the delay while it is HIGH.  The
\* receiver samples the Data line on the edge and latches on the last one.
ClockHigh ==
    /\ isr_pc = "clock_high"
    /\ pin8' = "HIGH"
    /\ frame' = Append(frame, LevelBit(pin7))
    /\ waits' = Append(waits, ClockHighDelay(Load(mem, "i")))
    /\ IF Len(frame') = FrameBits
       THEN /\ relay' = Latch(relay, frame')
            /\ lastCmd' = CommandedPhase(relay')
            /\ cmdRepeated' = (cmdRepeated \/ lastCmd' = lastCmd)
       ELSE UNCHANGED << relay, lastCmd, cmdRepeated >>
    /\ isr_pc' = "clock_low"
    /\ UNCHANGED << config, toggle_relay, hours, toggle_relay_1, mem, pin7,
                    fg_pc, mod_i, ch_j, armed, offCmds, ntrig, ticks,
                    cmdByte,
                    window >>

\* Falling edge of the Clock line, the delay after it, and the loop step.
ClockLow ==
    /\ isr_pc = "clock_low"
    /\ pin8' = ClockFallLevel(pin8)
    /\ waits' = Append(waits, "CLOCK_LOW")
    /\ mem' = LoopStep(mem)
    /\ isr_pc' = IF LoopContinues(mem') THEN "data" ELSE "reset"
    /\ UNCHANGED << config, toggle_relay, hours, toggle_relay_1, pin7,
                    fg_pc, mod_i, ch_j, armed, relay, frame, offCmds, ntrig,
                    ticks, lastCmd, cmdRepeated, cmdByte,
                    window >>

\* The Data line is reset after the loop and the callback returns.
ResetData ==
    /\ isr_pc = "reset"
    /\ pin7' = ResetDataLevel(pin7)
    /\ mem' = DeadObjects
    /\ isr_pc' = "idle"
    /\ UNCHANGED << config, toggle_relay, hours, toggle_relay_1, pin8,
                    fg_pc, mod_i, ch_j, armed, relay, frame, waits, offCmds,
                    ntrig, ticks, lastCmd, cmdRepeated, cmdByte,
                    window >>

(* ----------------------------------------------------------------------- *)
(* setup                                                                   *)
(* ----------------------------------------------------------------------- *)
\* relays.SetRelay(channel, state, module)
SetRelay(r, c, s, m) == [r EXCEPT ![m][c] = s]

\* (variant: setup returns when the timer cannot be set)
AfterAttach_return(ok) == IF ok THEN "relays_off" ELSE "loop"

\* where setup continues after attachInterruptInterval returned ok
AfterAttach(ok) == "relays_off"

\* (variant: the inner loop stops one channel short)
InnerLoopContinues_short(j) == j < ChannelsPerModule

\* the condition j <= 4 of the inner loop
InnerLoopContinues(j) == j <= ChannelsPerModule

\* the condition i <= NumModules of the outer loop
OuterLoopContinues(n) == n <= NumModules

\* ITimer1.init() and ITimer1.attachInterruptInterval(...)
Setup_attach ==
    /\ fg_pc = "setup"
    /\ ForegroundRuns
    /\ \E ok \in BOOLEAN :
          /\ armed' = ok
          /\ fg_pc' = AfterAttach(ok)
    /\ mod_i' = 1
    /\ ch_j' = 1
    /\ UNCHANGED << config, toggle_relay, hours, toggle_relay_1, mem,
                    isr_pc, pin7, pin8, relay, frame, waits, offCmds, ntrig,
                    ticks, lastCmd, cmdRepeated, cmdByte,
                    window >>

\* One pass of the body of the loops that initialise all relays OFF.
Setup_relay_off ==
    /\ fg_pc = "relays_off"
    /\ ForegroundRuns
    /\ relay' = SetRelay(relay, ch_j, "OFF", mod_i)
    /\ offCmds' = offCmds \cup { << mod_i, ch_j >> }
    /\ IF InnerLoopContinues(ch_j + 1)
       THEN /\ ch_j' = ch_j + 1
            /\ UNCHANGED << mod_i, fg_pc >>
       ELSE IF OuterLoopContinues(mod_i + 1)
            THEN /\ mod_i' = mod_i + 1
                 /\ ch_j' = 1
                 /\ UNCHANGED fg_pc
            ELSE /\ fg_pc' = "start_relay"
                 /\ UNCHANGED << mod_i, ch_j >>
    /\ UNCHANGED << config, toggle_relay, hours, toggle_relay_1, mem,
                    isr_pc, pin7, pin8, armed, frame, waits, ntrig, ticks,
                    lastCmd, cmdRepeated, cmdByte,
                    window >>

\* #ifdef START_RELAY_ON relays.SetRelay(1, SERIAL_RELAY_ON, 1); setup
\* returns and loop() runs, which does nothing.
Setup_start_relay ==
    /\ fg_pc = "start_relay"
    /\ ForegroundRuns
    /\ relay' = IF start_on THEN SetRelay(relay, 1, "ON", 1) ELSE relay
    /\ fg_pc' = "loop"
    /\ UNCHANGED << config, toggle_relay, hours, toggle_relay_1, mem,
                    isr_pc, pin7, pin8, mod_i, ch_j, armed, frame, waits,
                    offCmds, ntrig, ticks, lastCmd, cmdRepeated, cmdByte,
                    window >>

(* ----------------------------------------------------------------------- *)
(* Specification                                                           *)
(* ----------------------------------------------------------------------- *)
Init ==
    /\ light_hours \in LightChoices
    /\ dark_hours \in DarkChoices
    /\ start_on \in BOOLEAN
    /\ layout \in Layouts
    /\ toggle_relay = InitialPhase(start_on)
    /\ hours = 0
    /\ toggle_relay_1 = InitialPhase(start_on)
    /\ mem = DeadObjects
    /\ isr_pc = "idle"
    /\ pin7 = "LOW"
    /\ pin8 = "LOW"
    /\ fg_pc = "setup"
    /\ mod_i = 1
    /\ ch_j = 1
    /\ armed = FALSE
    /\ relay = [m \in Modules |-> [c \in Channels |-> "unknown"]]
    /\ frame = << >>
    /\ waits = << >>
    /\ offCmds = {}
    /\ ntrig = 0
    /\ ticks = 0
    /\ cmdByte = 0
    /\ lastCmd = InitialPhase(start_on)
    /\ window = [pos |-> 0, flips |-> 0, drifted |-> FALSE]
    /\ cmdRepeated = FALSE

Interrupt == Trigger_relay \/ SendData \/ ClockHigh \/ ClockLow \/ ResetData

Foreground == Setup_attach \/ Setup_relay_off \/ Setup_start_relay

Next ==
    \/ Trigger_relay
    \/ SendData
    \/ ClockHigh
    \/ ClockLow
    \/ ResetData
    \/ Setup_attach
    \/ Setup_relay_off
    \/ Setup_start_relay

Spec == Init /\ [][Next]_vars

\* The timer keeps firing, a running callback keeps running, and the
\* foreground runs whenever no callback does.
LiveSpec == Spec /\ WF_vars(Interrupt) /\ WF_vars(Foreground)

TypeOK ==
    /\ hours \in 0..(UINT8_MOD - 1)
    /\ toggle_relay_1 \in BOOLEAN
    /\ isr_pc \in {"idle", "data", "clock_high", "clock_low", "reset"}
    /\ fg_pc \in {"setup", "relays_off", "start_relay", "loop"}
    /\ pin7 \in {"LOW", "HIGH"}
    /\ pin8 \in {"LOW", "HIGH"}
    /\ Len(frame) <= FrameBits

(* ----------------------------------------------------------------------- *)
(* Properties                                                              *)
(* ----------------------------------------------------------------------- *)
\* A step that is an invocation of Trigger_relay.
TriggerStep ==
    /\ isr_pc = "idle"
    /\ (ticks' # ticks \/ toggle_relay_1' # toggle_relay_1)

\* A step of Trigger_relay that flips the phase.
FlipStep == toggle_relay_1' # toggle_relay_1

\* A transmission has completed and none is running.
TransmissionDone == isr_pc = "idle" /\ Len(frame) = FrameBits

\* C1: the phase only changes to the other phase, and the phases commanded
\* (the initial phase, then the state of channel 1 in every frame
\* Trigger_relay transmits) strictly alternate: no frame commands the phase
\* that was commanded before it.
C1_CommandedPhasesAlternate ==
    /\ ~cmdRepeated
    /\ (Len(frame) = FrameBits => lastCmd = toggle_relay_1)

\* C2: the flip out of a phase happens on exactly the N-th trigger after
\* the phase was entered, N the configured length of the phase, and on no
\* earlier trigger; with light 18, dark 6, start LIGHT, triggers 1..17 leave
\* LIGHT, trigger 18 flips to DARK with the counter 0, triggers 19..23 leave
\* DARK and trigger 24 flips back to LIGHT.
C2_Scenario ==
    (light_hours = 18 /\ dark_hours = 6 /\ start_on) =>
        /\ ntrig \in 0..17 => toggle_relay_1
        /\ ntrig = 18 => (~toggle_relay_1 /\ hours = 0)
        /\ ntrig \in 19..23 => ~toggle_relay_1
        /\ ntrig = 24 => (toggle_relay_1 /\ hours = 0)

C2_FlipOnNthTrigger ==
    /\ [][TriggerStep =>
            (FlipStep <=> ticks + 1 = PhaseLength(toggle_relay_1))]_vars
    /\ []C2_Scenario

\* C3: every frame carries the byte 1 when the commanded state is ON and the
\* byte 0 when it is OFF.
C3_CommandByte ==
    Len(frame) = FrameBits =>
        FrameByte(frame) = (IF toggle_relay_1 THEN 1 ELSE 0)

\* C4: the frame transmitted by the invocation that flips the phase commands
\* ON iff the phase entered is LIGHT.
C4_CommandFollowsNewPhase ==
    Len(frame) = FrameBits => (frame[FrameBits] = 1 <=> toggle_relay_1)

\* C5: a transmission has exactly 8 Clock rising edges, the Data levels at
\* those edges are bits 7 down to 0 of the command byte, the Data line is
\* driven before the Clock goes HIGH and the Clock is LOW again before the
\* next bit is driven.
C5_MsbFirstFrame ==
    /\ Len(frame) <= FrameBits
    /\ (isr_pc \in {"idle", "reset"} => Len(frame) \in {0, FrameBits})
    /\ \A k \in 1..Len(frame) : frame[k] = Bit(cmdByte, FrameBits - k)
    /\ (isr_pc = "clock_high" =>
            pin8 = "LOW" /\ Len(waits) > 0 /\ waits[Len(waits)] = "DATA")
    /\ (pin8 = "HIGH" => isr_pc = "clock_low")
    /\ (isr_pc = "data" => pin8 = "LOW")

\* C6: after a transmission has completed, and until the next one starts,
\* the Data line and the Clock line are LOW, whatever byte was sent.
C6_LinesIdleLow ==
    TransmissionDone => (pin7 = "LOW" /\ pin8 = "LOW")

\* A transmission whose last bit was 1 has completed.
C6_Witness == TransmissionDone /\ frame[FrameBits] = 1

\* The relay states setup leaves when no frame was transmitted.
SetupRelays ==
    [m \in Modules |-> [c \in Channels |->
        IF m = 1 /\ c = 1 /\ start_on THEN "ON" ELSE "OFF"]]

\* C7: when arming the timer fails, setup still forces all channels OFF and
\* asserts the initial state; Trigger_relay is never invoked, no frame is
\* transmitted and the commanded relay state stays what setup left.
C7_AttachFailure ==
    (fg_pc # "setup" /\ ~armed) =>
        /\ ntrig = 0
        /\ frame = << >>
        /\ isr_pc = "idle"
        /\ toggle_relay_1 = InitialPhase(start_on)
        /\ (fg_pc = "loop" => relay = SetupRelays)

\* Arming failed, setup has finished and channel 1 is ON.
C7_Witness ==
    fg_pc = "loop" /\ ~armed /\ start_on /\ relay[1][1] = "ON"

\* C8: setup commands every channel of every module OFF before it asserts
\* the initial state, and when it finishes with no trigger fired channel 1
\* is ON iff START_RELAY_ON is defined and the other channels are OFF.
C8_SetupRelayOrder ==
    /\ (fg_pc \in {"start_relay", "loop"} =>
            offCmds = Modules \X Channels)
    /\ (fg_pc = "start_relay" /\ ntrig = 0 =>
            \A m \in Modules : \A c \in Channels : relay[m][c] = "OFF")
    /\ (fg_pc = "loop" /\ ntrig = 0 => relay = SetupRelays)

\* setup has finished with the timer armed, no trigger has fired and
\* channel 1 is ON.
C8_Witness ==
    fg_pc = "loop" /\ armed /\ ntrig = 0 /\ start_on /\ relay[1][1] = "ON"

\* C9: with the timer armed and firing forever, each of LIGHT and DARK is
\* entered again and again (armed never becomes false again, so "whenever
\* armed, eventually LIGHT" is "infinitely often not armed or LIGHT").
C9_ScheduleNeverStops ==
    /\ []<>(~armed \/ toggle_relay_1)
    /\ []<>(~armed \/ ~toggle_relay_1)

\* C10: between invocations the counter is below the length of the current
\* phase, and the 8-bit counter never wraps around: it only returns to 0
\* when the phase flips.
C10_Bound ==
    isr_pc = "idle" => (0 <= hours /\ hours < PhaseLength(toggle_relay_1))

C10_CounterBounded ==
    /\ []C10_Bound
    /\ [][hours' < hours => FlipStep]_vars

\* A step that enters Trigger_relay (every invocation changes the counter
\* or starts a transmission).
InvocationStep ==
    /\ isr_pc = "idle"
    /\ (hours' # hours \/ isr_pc' # "idle")

\* C11: after every invocation of Trigger_relay the global flag
\* toggle_relay equals the phase of the scheduler, toggle_relay_1.
C11_FlagReflectsPhase ==
    isr_pc = "idle" => toggle_relay = toggle_relay_1

\* C12: a trigger on which the 8-bit counter, incremented, is not the
\* length of the current phase only increments the counter: the phase, the
\* frame, its delays, the Data and Clock lines and the relay states stay as
\* they are and no transmission starts.
C12_IdleTrigger ==
    [][(InvocationStep
            /\ (hours + 1) % UINT8_MOD # PhaseLength(toggle_relay_1)) =>
        /\ hours' = (hours + 1) % UINT8_MOD
        /\ isr_pc' = "idle"
        /\ UNCHANGED << toggle_relay_1, toggle_relay, frame, waits, pin7,
                        pin8, relay, lastCmd, cmdByte, mem >>]_vars

\* A trigger that did not flip has returned after an earlier transmission.
C12_Witness ==
    isr_pc = "idle" /\ hours > 1 /\ Len(frame) = FrameBits /\ fg_pc = "loop"

\* The delays of one frame, in order.
FrameWaits ==
    [k \in 1..(3 * FrameBits) |->
        IF k % 3 = 1 THEN "DATA"
        ELSE IF k % 3 = 0 THEN "CLOCK_LOW"
        ELSE IF k = 3 * FrameBits - 1 THEN "LATCH" ELSE "CLOCK_HIGH"]

\* C13: the delays of a frame are, bit by bit, the data delay, the delay
\* while the Clock is HIGH and the delay after the Clock went LOW; the
\* delay while the Clock is HIGH is the latch delay on the 8th bit and only
\* there, the shift delay on bits 1..7.
C13_FrameDelays ==
    /\ Len(waits) <= 3 * FrameBits
    /\ \A k \in 1..Len(waits) : waits[k] = FrameWaits[k]
    /\ (isr_pc \in {"idle", "reset"} => Len(waits) \in {0, 3 * FrameBits})

\* A transmission has completed; the delay of its last Clock pulse was the
\* latch delay.
C13_Witness ==
    TransmissionDone /\ waits[3 * FrameBits - 1] = "LATCH"
        /\ waits[2] = "CLOCK_HIGH"

\* C14: while an invocation of Trigger_relay runs, the foreground takes no
\* step and no other invocation starts, so the frame of one trigger is
\* transmitted whole before the next begins.
C14_CallbackAtomic ==
    [][isr_pc # "idle" =>
        /\ UNCHANGED << fg_pc, mod_i, ch_j, armed, offCmds, hours,
                        toggle_relay_1, ntrig, cmdByte >>
        /\ (frame' = frame \/ \E b \in {0, 1} : frame' = Append(frame, b))
        /\ (isr_pc' = "idle" => Len(frame) = FrameBits)]_vars

\* A callback is transmitting while setup has not finished.
C14_Witness ==
    isr_pc = "clock_low" /\ fg_pc = "relays_off" /\ Len(frame) = 3

\* C15: an invocation of Trigger_relay takes a bounded number of steps and
\* never waits: the bit loop runs exactly 8 times when the phase flips and
\* not at all otherwise, and a running callback always has a next step.
C15_BoundedCallback ==
    /\ Len(frame) <= FrameBits
    /\ Len(waits) <= 3 * FrameBits
    /\ (isr_pc # "idle" =>
            /\ ENABLED Interrupt
            /\ Load(mem, "i") = Len(frame) + (IF isr_pc = "clock_low" THEN 0 ELSE 1)
            /\ hours = 0)
    /\ (isr_pc = "reset" => Len(frame) = FrameBits /\ Load(mem, "i") = 9)

\* The bit loop has run 8 times and the callback is about to return.
C15_Witness == isr_pc = "reset" /\ Len(frame) = FrameBits

\* C16: once setup has completed, outside a transmission, the state last
\* commanded to channel 1 is ON iff the phase is LIGHT.
C16_RelayFollowsPhase ==
    (fg_pc = "loop" /\ isr_pc = "idle") =>
        (relay[1][1] = "ON" <=> toggle_relay_1)

\* C17: the schedule is periodic: every window of light_hours + dark_hours
\* triggers ends in the state it began in and holds exactly two flips.
C17_Periodic == ~window.drifted

\* C18: the Data line changes level only while the Clock line is LOW, and
\* while the Clock is HIGH the Data line holds the bit being sent.
C18_Held ==
    pin8 = "HIGH" =>
        /\ isr_pc = "clock_low"
        /\ pin7 = DataLevel(mem)
        /\ LevelBit(pin7) = frame[Len(frame)]

C18_DataStableWhileClockHigh ==
    /\ []C18_Held
    /\ [][pin7' # pin7 => (pin8 = "LOW" /\ pin8' = "LOW")]_vars

\* The Clock is HIGH and the Data line holds a 1.
C18_Witness == pin8 = "HIGH" /\ pin7 = "HIGH"

====
